---- MODULE Spec2Model ----
(***************************************************************************)
(* The DevTools workspace file-system bridge of                            *)
(* atom::CommonWebContentsDelegate (common_web_contents_delegate.cc, kept  *)
(* in src/atom/common/javascript_bindings.cc from line 322 on): the        *)
(* persisted path registry, the indexing-job tracker and the save/append   *)
(* file tracker, with the collaborators they drive (preference store,      *)
(* isolated context, indexer, file picker, sequenced file task runner).    *)
(*                                                                         *)
(* Every handler of the delegate is one action.  The collaborators run on  *)
(* other threads; what they hand to the owning (UI) thread is a queue of   *)
(* posted callbacks, and running the head of such a queue is an action.    *)
(***************************************************************************)
EXTENDS Integers, Sequences, FiniteSets, TLC

\* ------------------------------------------------------------------ bounds
\* Indexer jobs that exist at a time.
MaxJobs == 2
\* Indexer callbacks posted to the UI thread and not yet run.
MaxPosted == 1
\* Folder pickers open at a time.
MaxAddPickers == 1
\* Save pickers open at a time.
MaxSavePickers == 1
\* File tasks (write, append) posted over one behaviour.
MaxTasks == 2
\* Searches handed to the indexer whose callback has not run yet.
MaxSearches == 1
\* Fullscreen calls recorded since the owner window was set.
MaxTabCalls == 4

\* ------------------------------------------------------------- input sets
RequestIds == {1, 2}
Paths == {"p1", "p2"}
Types == {"", "automatic"}
Urls == {"u1", "u2"}
FilePaths == {"f1", "f2"}
\* File contents are strings, modelled as sequences of characters.
Contents == {<<"h">>, <<"w">>}
\* The state of a path on the host file system: no file, or a file and its
\* data.
NoFile == [exists |-> FALSE, data |-> <<>>]
File(data) == [exists |-> TRUE, data |-> data]
\* The empty base::FilePath DevToolsAddFileSystem tests for.
EmptyPath == ""

VARIABLES
  web_contents_,            \* TRUE while the InspectableWebContents exists
  prefs,                    \* prefs::kDevToolsFileSystemPaths: path -> value
  isolated,                 \* paths registered with storage::IsolatedContext
  add_pickers,              \* open SELECT_FOLDER pickers: sequence of types
  crashed,                  \* TRUE once a handler dereferenced a null pointer
  searches,                 \* indexer searches whose callback has not run
  devtools_indexing_jobs_,  \* std::map request_id -> job, as a set of entries
  indexer,                  \* the indexer's jobs that still exist, by slot
  posted,                   \* indexer callbacks posted to the UI thread, FIFO
  saved_files_,             \* std::map url -> path
  save_pickers,             \* open SELECT_SAVEAS_FILE pickers: [url, content]
  file_task_runner_,        \* tasks posted to the sequenced runner, not yet run
  replies,                  \* replies posted back to the UI thread, not yet run
  files,                    \* the host file system: path -> NoFile or File
  issued,                   \* history: how many file tasks were posted
  ran,                      \* history: how many file tasks have run
  notified,                 \* history: how many replies have run
  owner_window_,            \* TRUE while the weak pointer holds a window
  window_fullscreen,        \* NativeWindow::IsFullscreen of the owner window
  html_fullscreen_,         \* the delegate's HTML fullscreen state
  native_fullscreen_,       \* the window was fullscreen when HTML entered
  tab_calls,                \* history: fullscreen calls since the window was set
  window_calls,             \* calls the last step made on the owner window
  context_valid,            \* ScriptContext::is_valid of the bindings' context
  render_frame_,            \* TRUE while the bindings' render frame exists
  context_type,             \* effective_context_type of the bindings' context
  global_privates,          \* private properties of the context's global object
  object_privates,          \* private properties of another object
  ipc_utils_emit,           \* ipc_utils.emit calls the last step made
  emitted,                  \* front-end notifications the last step delivered
  last                      \* the handler the last step ran, with its inputs

regVars == <<web_contents_, prefs, isolated, add_pickers, crashed, searches>>
indexVars == <<devtools_indexing_jobs_, indexer, posted>>
saveVars == <<saved_files_, save_pickers, file_task_runner_, replies, files,
              issued, ran, notified>>
fullscreenVars == <<owner_window_, window_fullscreen, html_fullscreen_,
                    native_fullscreen_, tab_calls, window_calls>>
bindingsVars == <<context_valid, render_frame_, context_type, global_privates,
                  object_privates, ipc_utils_emit>>
vars == <<web_contents_, prefs, isolated, add_pickers, crashed, searches,
          owner_window_, window_fullscreen, html_fullscreen_,
          native_fullscreen_, tab_calls, window_calls,
          context_valid, render_frame_, context_type, global_privates,
          object_privates, ipc_utils_emit,
          devtools_indexing_jobs_, indexer, posted,
          saved_files_, save_pickers, file_task_runner_, replies, files,
          issued, ran, notified, emitted, last>>

\* ------------------------------------------------------- sequence helpers
RemoveAt(s, i) == SubSeq(s, 1, i - 1) \o SubSeq(s, i + 1, Len(s))

\* -------------------------------------------------- std::map of the tracker
\* devtools_indexing_jobs_ is a set of entries [id, jid]; the operations
\* below are the std::map calls the delegate makes on it.
MapCount(m, k) == Cardinality({e \in m : e.id = k})

MapFind(m, k) == CHOOSE e \in m : e.id = k

MapErase(m, k) == {e \in m : e.id # k}

MapAssign(m, k, v) == {e \in m : e.id # k} \cup {[id |-> k, jid |-> v]}

\* ------------------------------------------------- front-end notifications
\* web_contents_->CallClientFunction("DevToolsAPI.<name>", ...): one record
\* per call.  jid is the indexer job whose callback made the call (0: none),
\* tracked is whether the tracker held an entry for the request id when the
\* call was made.
IndexNote(name, request_id, file_system_path, jid, tracked) ==
  [name |-> name, id |-> request_id, path |-> file_system_path,
   jid |-> jid, tracked |-> tracked]

PathNote(name, file_system_path) == [name |-> name, path |-> file_system_path]

UrlNote(name, url) == [name |-> name, url |-> url]

\* web_contents_->CallClientFunction(...) in a callback that does not look at
\* web_contents_ first: the notes reach the front end while web_contents_ is
\* set; after DestroyWebContents the call goes through the reset unique_ptr,
\* a null pointer, and the process dies.
CallClientFunction(notes) ==
  IF web_contents_
    THEN emitted' = notes /\ crashed' = crashed
    ELSE emitted' = <<>> /\ crashed' = TRUE

\* ------------------------------------------------------------ the registry
\* A base::Value held by the path dictionary: a string (the type tag), or a
\* value of another type, as dictionaries written before the type tag
\* existed hold.
StringValue(s) == [is_string |-> TRUE, string |-> s]

NullValue == [is_string |-> FALSE]

PersistedValues == {StringValue(t) : t \in Types} \cup {NullValue}

\* The dictionaries an earlier session may have left in the preference store.
PersistedDicts == UNION {[S -> PersistedValues] : S \in SUBSET Paths}

\* What prefs holds when the store has no path dictionary: GetDictionary and
\* DictionaryPrefUpdate::Get then yield a null pointer.
NoDictionary == [absent |-> TRUE]

\* The process runs until a handler dereferences a null pointer.
Running == ~crashed

\* GetAddedFileSystemPaths: the std::map path -> type read from the
\* dictionary; a null dictionary reads as no entries, a value that is not a
\* string as the empty type.
GetAddedFileSystemPaths ==
  IF prefs = NoDictionary THEN <<>>
  ELSE [p \in DOMAIN prefs |->
          IF prefs[p].is_string THEN prefs[p].string ELSE ""]

\* IsDevToolsFileSystemAdded calls HasKey through the pointer GetDictionary
\* returned, without testing it: its callers crash on a null dictionary
\* (HasKey reads a member of the object) and reach the value below otherwise.
IsDevToolsFileSystemAdded(file_system_path) ==
  file_system_path \in DOMAIN prefs

\* RegisterFileSystem: register the path with the isolated context and grant
\* the renderer its capabilities.  The value is the new set of registrations.
RegisterFileSystem(path) == isolated \cup {path}

\* DevToolsAddFileSystemInteral persisting the entry without its type.
MutAddInteral_DropsType(path, type) ==
  /\ isolated' = RegisterFileSystem(path)
  /\ UNCHANGED crashed
  /\ IF IsDevToolsFileSystemAdded(path)
       THEN /\ UNCHANGED prefs
            /\ emitted' = <<>>
       ELSE /\ prefs' = [p \in DOMAIN prefs \cup {path} |->
                            IF p = path THEN StringValue("") ELSE prefs[p]]
            /\ emitted' = <<[name |-> "fileSystemAdded", path |-> path,
                             type |-> type]>>

\* DevToolsAddFileSystemInteral storing the new type over an entry that is
\* already there.
MutAddInteral_OverwritesType(path, type) ==
  /\ isolated' = RegisterFileSystem(path)
  /\ UNCHANGED crashed
  /\ prefs' = [p \in DOMAIN prefs \cup {path} |->
                 IF p = path THEN StringValue(type) ELSE prefs[p]]
  /\ emitted' = IF IsDevToolsFileSystemAdded(path) THEN <<>>
                ELSE <<[name |-> "fileSystemAdded", path |-> path,
                        type |-> type]>>

\* RegisterFileSystem(GetDevToolsWebContents(), path) calls GetRenderViewHost
\* through the pointer it is given, which is null once web_contents_ is reset.
DevToolsAddFileSystemInteral(path, type) ==
  /\ isolated' = RegisterFileSystem(path)
  /\ IF ~web_contents_ \/ prefs = NoDictionary
       THEN /\ crashed' = TRUE
            /\ emitted' = <<>>
            /\ UNCHANGED prefs
       ELSE /\ UNCHANGED crashed
            /\ IF IsDevToolsFileSystemAdded(path)
                 THEN /\ UNCHANGED prefs
                      /\ emitted' = <<>>
                 ELSE /\ prefs' = [p \in DOMAIN prefs \cup {path} |->
                                      IF p = path THEN StringValue(type)
                                      ELSE prefs[p]]
                      /\ emitted' = <<[name |-> "fileSystemAdded",
                                       path |-> path, type |-> type]>>

DevToolsAddFileSystem(file_system_path, type) ==
  /\ Running
  /\ IF file_system_path = EmptyPath
       THEN /\ Len(add_pickers) < MaxAddPickers
            /\ add_pickers' = Append(add_pickers, type)
            /\ emitted' = <<>>
            /\ UNCHANGED <<prefs, isolated, crashed>>
       ELSE /\ DevToolsAddFileSystemInteral(file_system_path, type)
            /\ UNCHANGED add_pickers
  /\ last' = [op |-> "DevToolsAddFileSystem", path |-> file_system_path,
              type |-> type]
  /\ UNCHANGED <<web_contents_, searches, indexVars, saveVars,
                 fullscreenVars, bindingsVars>>

OnAddFileSelected(i, path) ==
  /\ Running
  /\ i \in 1..Len(add_pickers)
  /\ DevToolsAddFileSystemInteral(path, add_pickers[i])
  /\ add_pickers' = RemoveAt(add_pickers, i)
  /\ last' = [op |-> "OnAddFileSelected", path |-> path,
              type |-> add_pickers[i]]
  /\ UNCHANGED <<web_contents_, searches, indexVars, saveVars,
                 fullscreenVars, bindingsVars>>

\* OnAddFileSelectionCancelled telling the front end of the cancellation.
MutAddCancelled_Reports(i) ==
  /\ Running
  /\ i \in 1..Len(add_pickers)
  /\ add_pickers' = RemoveAt(add_pickers, i)
  /\ emitted' = <<[name |-> "canceledAddFileSystem"]>>
  /\ last' = [op |-> "OnAddFileSelectionCancelled", type |-> add_pickers[i]]
  /\ UNCHANGED <<web_contents_, prefs, isolated, crashed, searches,
                 indexVars, saveVars,
                 fullscreenVars, bindingsVars>>

OnAddFileSelectionCancelled(i) ==
  /\ Running
  /\ i \in 1..Len(add_pickers)
  /\ add_pickers' = RemoveAt(add_pickers, i)
  /\ emitted' = <<>>
  /\ last' = [op |-> "OnAddFileSelectionCancelled", type |-> add_pickers[i]]
  /\ UNCHANGED <<web_contents_, prefs, isolated, crashed, searches,
                 indexVars, saveVars,
                 fullscreenVars, bindingsVars>>

\* DevToolsRemoveFileSystem revoking and notifying, without the preference
\* update.
MutRemove_KeepsEntry(file_system_path) ==
  /\ isolated' = isolated \ {file_system_path}
  /\ emitted' = <<PathNote("fileSystemRemoved", file_system_path)>>
  /\ last' = [op |-> "DevToolsRemoveFileSystem", path |-> file_system_path]
  /\ UNCHANGED <<web_contents_, prefs, add_pickers, crashed, searches,
                 indexVars, saveVars,
                 fullscreenVars, bindingsVars>>

\* Mutant: the removal also forgets the indexing jobs it tracks.
MutRemove_ClearsTracker(file_system_path) ==
  /\ isolated' = isolated \ {file_system_path}
  /\ prefs' = [p \in DOMAIN prefs \ {file_system_path} |-> prefs[p]]
  /\ emitted' = <<PathNote("fileSystemRemoved", file_system_path)>>
  /\ devtools_indexing_jobs_' = {}
  /\ last' = [op |-> "DevToolsRemoveFileSystem", path |-> file_system_path]
  /\ UNCHANGED <<web_contents_, add_pickers, crashed, searches, indexer,
                 posted, saveVars, fullscreenVars, bindingsVars>>

DevToolsRemoveFileSystem(file_system_path) ==
  /\ Running
  /\ IF ~web_contents_
       THEN /\ emitted' = <<>>
            /\ UNCHANGED <<prefs, isolated, crashed>>
       ELSE /\ isolated' = isolated \ {file_system_path}
            /\ IF prefs = NoDictionary
                 THEN /\ crashed' = TRUE
                      /\ emitted' = <<>>
                      /\ UNCHANGED prefs
                 ELSE /\ prefs' = [p \in DOMAIN prefs \ {file_system_path}
                                     |-> prefs[p]]
                      /\ emitted' = <<PathNote("fileSystemRemoved",
                                               file_system_path)>>
                      /\ UNCHANGED crashed
  /\ last' = [op |-> "DevToolsRemoveFileSystem", path |-> file_system_path]
  /\ UNCHANGED <<web_contents_, add_pickers, searches, indexVars, saveVars,
                 fullscreenVars, bindingsVars>>

\* std::map iterates its keys in order: the paths, smallest first.
PathOrder == <<"p1", "p2">>

\* The list DevToolsRequestFileSystems builds from the map: one FileSystem
\* per key, in key order.
FileSystemValues(file_system_paths) ==
  LET present == SelectSeq(PathOrder,
                           LAMBDA p : p \in DOMAIN file_system_paths)
  IN [i \in 1..Len(present) |->
        [path |-> present[i], type |-> file_system_paths[present[i]]]]

\* DevToolsRequestFileSystems returning without a call when there is nothing
\* to list.
MutRequest_SilentWhenEmpty ==
  /\ Running
  /\ LET file_system_paths == GetAddedFileSystemPaths IN
       /\ isolated' = isolated \cup DOMAIN file_system_paths
       /\ emitted' = IF DOMAIN file_system_paths = {} THEN <<>>
                     ELSE <<[name |-> "fileSystemsLoaded",
                             file_systems |->
                               FileSystemValues(file_system_paths)]>>
  /\ last' = [op |-> "DevToolsRequestFileSystems"]
  /\ UNCHANGED <<web_contents_, prefs, add_pickers, crashed, searches,
                 indexVars, saveVars,
                 fullscreenVars, bindingsVars>>

\* DevToolsRequestFileSystems dropping the dictionary once it has listed it.
MutRequest_ClearsRegistry ==
  /\ Running
  /\ LET file_system_paths == GetAddedFileSystemPaths IN
       /\ isolated' = isolated \cup DOMAIN file_system_paths
       /\ emitted' = <<[name |-> "fileSystemsLoaded",
                        file_systems |-> FileSystemValues(file_system_paths)]>>
  /\ prefs' = <<>>
  /\ last' = [op |-> "DevToolsRequestFileSystems"]
  /\ UNCHANGED <<web_contents_, add_pickers, crashed, searches, indexVars,
                 saveVars,
                 fullscreenVars, bindingsVars>>

\* GetAddedFileSystemPaths(GetDevToolsWebContents()) reaches the preference
\* service through the web contents, null once web_contents_ is reset.
DevToolsRequestFileSystems ==
  /\ Running
  /\ IF ~web_contents_
       THEN /\ crashed' = TRUE
            /\ emitted' = <<>>
            /\ UNCHANGED isolated
       ELSE LET file_system_paths == GetAddedFileSystemPaths IN
              /\ isolated' = isolated \cup DOMAIN file_system_paths
              /\ emitted' = <<[name |-> "fileSystemsLoaded",
                               file_systems |->
                                 FileSystemValues(file_system_paths)]>>
              /\ UNCHANGED crashed
  /\ last' = [op |-> "DevToolsRequestFileSystems"]
  /\ UNCHANGED <<web_contents_, prefs, add_pickers, searches,
                 indexVars, saveVars,
                 fullscreenVars, bindingsVars>>

\* ------------------------------------------------------------- the indexer
\* DevToolsFileSystemIndexer::IndexPath: a new job; its three callbacks are
\* bound to request_id and file_system_path.  indexer holds the jobs that
\* still exist, by slot; posted is the queue of callbacks [jid, kind] the jobs
\* have posted to the UI thread and that have not run yet.  A slot is free
\* again when its job is over and has no callback left to run.
NoJob == [id |-> 0, path |-> "", stopped |-> TRUE, finished |-> TRUE]

NewIndexingJob(request_id, file_system_path) ==
  [id |-> request_id, path |-> file_system_path, stopped |-> FALSE,
   finished |-> FALSE]

\* Started, not stopped, done callback not yet run.
JobActive(j) == j # NoJob /\ ~j.stopped

\* The job is over (stopped, or its done callback posted) and nothing of it
\* is left to run: the last reference to it is dropped.
JobGone(j, jid, queue) ==
  /\ j.stopped \/ j.finished
  /\ \A i \in 1..Len(queue) : queue[i].jid # jid

FreeSlots == {s \in 1..MaxJobs : indexer[s] = NoJob}

LowestFreeSlot == CHOOSE s \in FreeSlots : \A t \in FreeSlots : s <= t

\* ------------------------------------------------- the indexing callbacks
OnDevToolsIndexingWorkCalculated(request_id, file_system_path, jid) ==
  /\ CallClientFunction(
       <<IndexNote("indexingTotalWorkCalculated", request_id,
                   file_system_path, jid,
                   MapCount(devtools_indexing_jobs_, request_id) # 0)>>)
  /\ UNCHANGED devtools_indexing_jobs_

OnDevToolsIndexingWorked(request_id, file_system_path, jid) ==
  /\ CallClientFunction(
       <<IndexNote("indexingWorked", request_id, file_system_path, jid,
                   MapCount(devtools_indexing_jobs_, request_id) # 0)>>)
  /\ UNCHANGED devtools_indexing_jobs_

\* Mutant: the front end is notified before the tracker entry is erased.
MutIndexingDone_NotifyFirst(request_id, file_system_path, jid) ==
  /\ CallClientFunction(
       <<IndexNote("indexingDone", request_id, file_system_path, jid,
                   MapCount(devtools_indexing_jobs_, request_id) # 0)>>)
  /\ devtools_indexing_jobs_' = MapErase(devtools_indexing_jobs_, request_id)

OnDevToolsIndexingDone(request_id, file_system_path, jid) ==
  /\ devtools_indexing_jobs_' = MapErase(devtools_indexing_jobs_, request_id)
  /\ CallClientFunction(
       <<IndexNote("indexingDone", request_id, file_system_path, jid,
                   MapCount(devtools_indexing_jobs_', request_id) # 0)>>)

\* ------------------------------------------------------ indexing requests
\* Mutant: the registry is not consulted before the job is started.
MutIndexPath_NoRegistryCheck(request_id, file_system_path) ==
  /\ IF MapCount(devtools_indexing_jobs_, request_id) # 0
       THEN /\ emitted' = <<>>
            /\ UNCHANGED <<devtools_indexing_jobs_, indexer, posted>>
       ELSE /\ FreeSlots # {}
            /\ UNCHANGED posted
            /\ indexer' = [indexer EXCEPT ![LowestFreeSlot] =
                             NewIndexingJob(request_id, file_system_path)]
            /\ devtools_indexing_jobs_' =
                 MapAssign(devtools_indexing_jobs_, request_id, LowestFreeSlot)
            /\ emitted' = <<>>
  /\ last' = [op |-> "DevToolsIndexPath", id |-> request_id,
              path |-> file_system_path,
              added |-> IsDevToolsFileSystemAdded(file_system_path),
              running |-> MapCount(devtools_indexing_jobs_, request_id) # 0]
  /\ UNCHANGED <<regVars, saveVars,
                 fullscreenVars, bindingsVars>>

\* IsDevToolsFileSystemAdded(GetDevToolsWebContents(), ...) reaches the
\* preference service through the web contents it is given, which are null
\* once web_contents_ is reset.
DevToolsIndexPath(request_id, file_system_path) ==
  /\ Running
  /\ IF ~web_contents_ \/ prefs = NoDictionary
       THEN /\ crashed' = TRUE
            /\ emitted' = <<>>
            /\ UNCHANGED indexVars
       ELSE /\ UNCHANGED crashed
            /\ IF ~IsDevToolsFileSystemAdded(file_system_path)
                 THEN /\ OnDevToolsIndexingDone(request_id, file_system_path, 0)
                      /\ UNCHANGED <<indexer, posted>>
                 ELSE IF MapCount(devtools_indexing_jobs_, request_id) # 0
                   THEN /\ emitted' = <<>>
                        /\ UNCHANGED <<devtools_indexing_jobs_, indexer,
                                       posted>>
                   ELSE /\ FreeSlots # {}
                        /\ UNCHANGED posted
                        /\ indexer' =
                             [indexer EXCEPT ![LowestFreeSlot] =
                                NewIndexingJob(request_id, file_system_path)]
                        /\ devtools_indexing_jobs_' =
                             MapAssign(devtools_indexing_jobs_, request_id,
                                       LowestFreeSlot)
                        /\ emitted' = <<>>
  /\ last' = [op |-> "DevToolsIndexPath", id |-> request_id,
              path |-> file_system_path,
              added |-> IsDevToolsFileSystemAdded(file_system_path),
              running |-> MapCount(devtools_indexing_jobs_, request_id) # 0]
  /\ UNCHANGED <<web_contents_, prefs, isolated, add_pickers, searches,
                 saveVars,
                 fullscreenVars, bindingsVars>>

\* FileSystemIndexingJob::Stop: the job posts nothing from now on; what it
\* has already posted to the UI thread stays posted.
StopJob(j, jid) ==
  LET stopped == [j EXCEPT !.stopped = TRUE] IN
  IF JobGone(stopped, jid, posted) THEN NoJob ELSE stopped

DevToolsStopIndexing(request_id) ==
  /\ Running
  /\ IF MapCount(devtools_indexing_jobs_, request_id) = 0
       THEN UNCHANGED <<devtools_indexing_jobs_, indexer>>
       ELSE LET it == MapFind(devtools_indexing_jobs_, request_id) IN
            /\ indexer' = [indexer EXCEPT ![it.jid] = StopJob(@, it.jid)]
            /\ devtools_indexing_jobs_' = devtools_indexing_jobs_ \ {it}
  /\ emitted' = <<>>
  /\ UNCHANGED posted
  /\ last' = [op |-> "DevToolsStopIndexing", id |-> request_id,
              running |-> MapCount(devtools_indexing_jobs_, request_id) # 0]
  /\ UNCHANGED <<regVars, saveVars,
                 fullscreenVars, bindingsVars>>

\* The indexer's worker posts one callback of job jid to the UI thread: any
\* number of work-estimate and progress callbacks, then the done callback.
IndexerPost(jid, kind) ==
  /\ Running
  /\ indexer[jid] # NoJob
  /\ ~indexer[jid].stopped
  /\ ~indexer[jid].finished
  /\ Len(posted) < MaxPosted
  /\ posted' = Append(posted, [jid |-> jid, kind |-> kind])
  /\ indexer' = [indexer EXCEPT ![jid].finished = (kind = "done")]
  /\ emitted' = <<>>
  /\ last' = [op |-> "IndexerPost"]
  /\ UNCHANGED <<regVars, devtools_indexing_jobs_, saveVars,
                 fullscreenVars, bindingsVars>>

\* The UI thread runs the oldest posted indexer callback.
RunIndexerCallback ==
  /\ Running
  /\ posted # <<>>
  /\ LET jid == Head(posted).jid
         kind == Head(posted).kind
         j == indexer[jid] IN
       /\ CASE kind = "total" ->
                 OnDevToolsIndexingWorkCalculated(j.id, j.path, jid)
            [] kind = "worked" ->
                 OnDevToolsIndexingWorked(j.id, j.path, jid)
            [] kind = "done" ->
                 OnDevToolsIndexingDone(j.id, j.path, jid)
       /\ posted' = Tail(posted)
       /\ indexer' = [indexer EXCEPT ![jid] =
                        IF JobGone(j, jid, Tail(posted)) THEN NoJob ELSE j]
       /\ last' = [op |-> "RunIndexerCallback", jid |-> jid, kind |-> kind,
                   id |-> j.id, stopped |-> j.stopped,
                   tracked |-> [id |-> j.id, jid |-> jid]
                                 \in devtools_indexing_jobs_]
  /\ UNCHANGED <<web_contents_, prefs, isolated, add_pickers, searches, saveVars,
                 fullscreenVars, bindingsVars>>

\* ------------------------------------------------------ the file tasks
\* base::WriteFile(path, data, size) creates or truncates the file and writes
\* the content; base::AppendToFile opens it for appending, creating it when
\* missing.  n is what the host file system did: -1 the file could not be
\* opened, otherwise the number of characters written (Len(content): all).
Written(content) == -1..Len(content)

WriteToFile(old, content, n) ==
  IF n = -1 THEN old ELSE File(SubSeq(content, 1, n))

\* Mutant: the append truncates the file like a write.
MutAppendToFile_Truncates(old, content, n) ==
  IF n = -1 THEN old ELSE File(SubSeq(content, 1, n))

AppendToFile(old, content, n) ==
  IF n = -1 THEN old ELSE File(old.data \o SubSeq(content, 1, n))

\* What running task t does to the content old of its file.
RunTask(t, old, n) ==
  IF t.op = "write" THEN WriteToFile(old, t.content, n)
  ELSE AppendToFile(old, t.content, n)

\* file_task_runner_->PostTaskAndReply(FROM_HERE, task, reply): the task
\* joins the sequenced runner's queue; the reply is posted to the UI thread
\* when the task has run.
PostTaskAndReply(op, path, content, url) ==
  LET t == [op |-> op, path |-> path, content |-> content, url |-> url,
            serial |-> issued + 1] IN
  /\ issued < MaxTasks
  /\ file_task_runner_' = Append(file_task_runner_, t)
  /\ issued' = issued + 1

\* ------------------------------------------------------- save and append
\* Mutant: a tracked path is reused even when save_as is set.
MutSave_IgnoresSaveAs(url, content, save_as) ==
  /\ IF url \in DOMAIN saved_files_
       THEN /\ PostTaskAndReply("write", saved_files_[url], content, url)
            /\ UNCHANGED <<saved_files_, save_pickers>>
       ELSE /\ Len(save_pickers) < MaxSavePickers
            /\ save_pickers' =
                 Append(save_pickers, [url |-> url, content |-> content])
            /\ UNCHANGED <<saved_files_, file_task_runner_, issued>>
  /\ emitted' = <<>>
  /\ last' = [op |-> "DevToolsSaveToFile", url |-> url, content |-> content,
              save_as |-> save_as, tracked |-> url \in DOMAIN saved_files_]
  /\ UNCHANGED <<regVars, indexVars, replies, files, ran, notified,
                 fullscreenVars, bindingsVars>>

DevToolsSaveToFile(url, content, save_as) ==
  /\ Running
  /\ IF url \in DOMAIN saved_files_ /\ ~save_as
       THEN /\ saved_files_' =
                 [saved_files_ EXCEPT ![url] = saved_files_[url]]
            /\ PostTaskAndReply("write", saved_files_[url], content, url)
            /\ UNCHANGED save_pickers
       ELSE /\ Len(save_pickers) < MaxSavePickers
            /\ save_pickers' =
                 Append(save_pickers, [url |-> url, content |-> content])
            /\ UNCHANGED <<saved_files_, file_task_runner_, issued>>
  /\ emitted' = <<>>
  /\ last' = [op |-> "DevToolsSaveToFile", url |-> url, content |-> content,
              save_as |-> save_as, tracked |-> url \in DOMAIN saved_files_]
  /\ UNCHANGED <<regVars, indexVars, replies, files, ran, notified,
                 fullscreenVars, bindingsVars>>

\* Mutant: an untracked url is appended to a default path.
MutAppend_DefaultPath(url, content) ==
  /\ PostTaskAndReply("append",
                      IF url \in DOMAIN saved_files_ THEN saved_files_[url]
                      ELSE "f1",
                      content, url)
  /\ emitted' = <<>>
  /\ last' = [op |-> "DevToolsAppendToFile", url |-> url,
              content |-> content, tracked |-> url \in DOMAIN saved_files_]
  /\ UNCHANGED <<regVars, indexVars, saved_files_, save_pickers, replies,
                 files, ran, notified,
                 fullscreenVars, bindingsVars>>

DevToolsAppendToFile(url, content) ==
  /\ Running
  /\ IF url \notin DOMAIN saved_files_
       THEN UNCHANGED <<file_task_runner_, issued>>
       ELSE PostTaskAndReply("append", saved_files_[url], content, url)
  /\ emitted' = <<>>
  /\ last' = [op |-> "DevToolsAppendToFile", url |-> url,
              content |-> content, tracked |-> url \in DOMAIN saved_files_]
  /\ UNCHANGED <<regVars, indexVars, saved_files_, save_pickers, replies,
                 files, ran, notified,
                 fullscreenVars, bindingsVars>>

\* Mutant: the selection posts the write and leaves saved_files_ alone.
MutSelected_NoMapUpdate(i, path) ==
  /\ i \in 1..Len(save_pickers)
  /\ LET url == save_pickers[i].url
         content == save_pickers[i].content IN
       /\ PostTaskAndReply("write", path, content, url)
       /\ last' = [op |-> "OnSaveFileSelected", url |-> url,
                   content |-> content, path |-> path,
                   tracked |-> url \in DOMAIN saved_files_]
  /\ save_pickers' = RemoveAt(save_pickers, i)
  /\ emitted' = <<>>
  /\ UNCHANGED <<regVars, indexVars, saved_files_, replies, files, ran,
                 notified,
                 fullscreenVars, bindingsVars>>

\* The user picks path in the i-th open save picker.
OnSaveFileSelected(i, path) ==
  /\ Running
  /\ i \in 1..Len(save_pickers)
  /\ LET url == save_pickers[i].url
         content == save_pickers[i].content IN
       /\ saved_files_' = [u \in DOMAIN saved_files_ \cup {url} |->
                             IF u = url THEN path ELSE saved_files_[u]]
       /\ PostTaskAndReply("write", path, content, url)
       /\ last' = [op |-> "OnSaveFileSelected", url |-> url,
                   content |-> content, path |-> path,
                   tracked |-> url \in DOMAIN saved_files_]
  /\ save_pickers' = RemoveAt(save_pickers, i)
  /\ emitted' = <<>>
  /\ UNCHANGED <<regVars, indexVars, replies, files, ran, notified,
                 fullscreenVars, bindingsVars>>

\* Mutant: the cancellation is dropped like that of the folder picker.
MutSaveCancelled_Silent(i) ==
  /\ i \in 1..Len(save_pickers)
  /\ emitted' = <<>>
  /\ save_pickers' = RemoveAt(save_pickers, i)
  /\ last' = [op |-> "OnSaveFileSelectionCancelled",
              url |-> save_pickers[i].url,
              tracked |-> save_pickers[i].url \in DOMAIN saved_files_]
  /\ UNCHANGED <<regVars, indexVars, saved_files_, file_task_runner_,
                 replies, files, issued, ran, notified,
                 fullscreenVars, bindingsVars>>

\* The user dismisses the i-th open save picker.
OnSaveFileSelectionCancelled(i) ==
  /\ Running
  /\ i \in 1..Len(save_pickers)
  /\ CallClientFunction(<<UrlNote("canceledSaveURL", save_pickers[i].url)>>)
  /\ save_pickers' = RemoveAt(save_pickers, i)
  /\ last' = [op |-> "OnSaveFileSelectionCancelled",
              url |-> save_pickers[i].url,
              tracked |-> save_pickers[i].url \in DOMAIN saved_files_]
  /\ UNCHANGED <<web_contents_, prefs, isolated, add_pickers, searches, indexVars, saved_files_, file_task_runner_,
                 replies, files, issued, ran, notified,
                 fullscreenVars, bindingsVars>>

\* The file task telling the front end itself, from the pool thread.
MutRunFileTask_NotifiesFromPool ==
  /\ Running
  /\ file_task_runner_ # <<>>
  /\ LET t == Head(file_task_runner_) IN
       \E n \in Written(t.content) :
         /\ files' = [files EXCEPT ![t.path] = RunTask(t, @, n)]
         /\ replies' = Append(replies, [op |-> t.op, url |-> t.url,
                                        serial |-> t.serial,
                                        ok |-> n = Len(t.content)])
         /\ last' = [op |-> "RunFileTask", task |-> t, n |-> n,
                     old |-> files[t.path]]
         /\ emitted' = <<UrlNote("savedURL", t.url)>>
  /\ ran' = ran + 1
  /\ file_task_runner_' = Tail(file_task_runner_)
  /\ UNCHANGED <<regVars, indexVars, saved_files_, save_pickers, issued,
                 notified,
                 fullscreenVars, bindingsVars>>

\* The sequenced runner runs its oldest task on a pool thread, then posts the
\* task's reply to the UI thread.  The reply is bound when the task is posted
\* and carries no result: its field ok only records, for the properties,
\* whether base::WriteFile / base::AppendToFile wrote the whole content.
RunFileTask ==
  /\ Running
  /\ file_task_runner_ # <<>>
  /\ LET t == Head(file_task_runner_) IN
       \E n \in Written(t.content) :
         /\ files' = [files EXCEPT ![t.path] = RunTask(t, @, n)]
         /\ replies' = Append(replies, [op |-> t.op, url |-> t.url,
                                        serial |-> t.serial,
                                        ok |-> n = Len(t.content)])
         /\ last' = [op |-> "RunFileTask", task |-> t, n |-> n,
                     old |-> files[t.path]]
  /\ ran' = ran + 1
  /\ file_task_runner_' = Tail(file_task_runner_)
  /\ emitted' = <<>>
  /\ UNCHANGED <<regVars, indexVars, saved_files_, save_pickers, issued,
                 notified,
                 fullscreenVars, bindingsVars>>

OnDevToolsSaveToFile(url) == CallClientFunction(<<UrlNote("savedURL", url)>>)

OnDevToolsAppendToFile(url) ==
  CallClientFunction(<<UrlNote("appendedToURL", url)>>)

\* The UI thread runs the oldest posted reply.
RunReply ==
  /\ Running
  /\ replies # <<>>
  /\ LET r == Head(replies) IN
       /\ IF r.op = "write" THEN OnDevToolsSaveToFile(r.url)
          ELSE OnDevToolsAppendToFile(r.url)
       /\ last' = [op |-> "RunReply", reply |-> r]
  /\ replies' = Tail(replies)
  /\ notified' = notified + 1
  /\ UNCHANGED <<web_contents_, prefs, isolated, add_pickers, searches,
                 indexVars, saved_files_, save_pickers,
                 file_task_runner_, files, issued, ran,
                 fullscreenVars, bindingsVars>>

\* ------------------------------------------------------ DestroyWebContents
\* web_contents_.reset(): the delegate itself, its indexer, its task runner,
\* its pickers and every callback already bound to it stay as they are.
\* Resetting a pointer that is already null does nothing.
DestroyWebContents ==
  /\ Running
  /\ web_contents_' = FALSE
  /\ emitted' = <<>>
  /\ last' = [op |-> "DestroyWebContents"]
  /\ UNCHANGED <<prefs, isolated, add_pickers, crashed, searches, indexVars,
                 saveVars, fullscreenVars, bindingsVars>>

\* ---------------------------------------------------- the indexer's search
Queries == {"q"}

\* The lists of file paths a search may find.
SearchResults == {<<>>, <<"f1">>, <<"f1", "f2">>}

OnDevToolsSearchCompleted(request_id, file_system_path, file_paths) ==
  CallClientFunction(<<[name |-> "searchCompleted", id |-> request_id,
                        path |-> file_system_path, files |-> file_paths]>>)

\* DevToolsSearchInPath handing every search to the indexer.
MutSearch_NoRegistryCheck(request_id, file_system_path, query) ==
  /\ Running
  /\ Len(searches) < MaxSearches
  /\ searches' = Append(searches, [id |-> request_id,
                                   path |-> file_system_path,
                                   query |-> query])
  /\ emitted' = <<>>
  /\ last' = [op |-> "DevToolsSearchInPath", id |-> request_id,
              path |-> file_system_path, query |-> query]
  /\ UNCHANGED <<web_contents_, prefs, isolated, add_pickers, crashed,
                 indexVars, saveVars,
                 fullscreenVars, bindingsVars>>

DevToolsSearchInPath(request_id, file_system_path, query) ==
  /\ Running
  /\ IF ~web_contents_ \/ prefs = NoDictionary
       THEN /\ crashed' = TRUE
            /\ emitted' = <<>>
            /\ UNCHANGED searches
       ELSE /\ UNCHANGED crashed
            /\ IF ~IsDevToolsFileSystemAdded(file_system_path)
                 THEN /\ OnDevToolsSearchCompleted(request_id,
                                                   file_system_path, <<>>)
                      /\ UNCHANGED searches
                 ELSE /\ Len(searches) < MaxSearches
                      /\ searches' = Append(searches,
                                            [id |-> request_id,
                                             path |-> file_system_path,
                                             query |-> query])
                      /\ emitted' = <<>>
  /\ last' = [op |-> "DevToolsSearchInPath", id |-> request_id,
              path |-> file_system_path, query |-> query]
  /\ UNCHANGED <<web_contents_, prefs, isolated, add_pickers, indexVars,
                 saveVars,
                 fullscreenVars, bindingsVars>>

\* DevToolsFileSystemIndexer::SearchInPath: the indexer searches on its own
\* thread and then runs the callback it was given, once, on the UI thread,
\* with the file paths it found.  Searches finish in the order they came.
RunSearchCallback ==
  /\ Running
  /\ searches # <<>>
  /\ LET s == Head(searches) IN
       /\ \E file_paths \in SearchResults :
            OnDevToolsSearchCompleted(s.id, s.path, file_paths)
       /\ last' = [op |-> "RunSearchCallback", id |-> s.id, path |-> s.path]
  /\ searches' = Tail(searches)
  /\ UNCHANGED <<web_contents_, prefs, isolated, add_pickers,
                 indexVars, saveVars,
                 fullscreenVars, bindingsVars>>

\* -------------------------------------------------------------- fullscreen
\* A call the delegate makes on its owner window.
WindowCall(name, arg) == [name |-> name, arg |-> arg]

\* One entry of the history of fullscreen calls: the call and whether the
\* window was fullscreen when it came.
TabCall(call) == [call |-> call, fullscreen_before |-> window_fullscreen]

\* SetHtmlApiFullscreen entering HTML fullscreen without looking at the
\* window first.
MutSetHtmlApiFullscreen_AlwaysSetsWindow(enter_fullscreen) ==
  [html |-> enter_fullscreen, native |-> FALSE,
   window |-> IF owner_window_ THEN enter_fullscreen ELSE window_fullscreen,
   calls |-> IF owner_window_
               THEN <<WindowCall("SetFullScreen", enter_fullscreen)>>
               ELSE <<>>]

\* SetHtmlApiFullscreen: the new html_fullscreen_ and native_fullscreen_, the
\* window's fullscreen state afterwards (SetFullScreen takes effect within
\* the call) and the calls made on the window.
SetHtmlApiFullscreen(enter_fullscreen) ==
  IF owner_window_ /\ enter_fullscreen /\ window_fullscreen
    THEN [html |-> TRUE, native |-> TRUE, window |-> window_fullscreen,
          calls |-> <<>>]
  ELSE IF owner_window_ /\ ~enter_fullscreen /\ native_fullscreen_
    THEN [html |-> FALSE, native |-> native_fullscreen_,
          window |-> window_fullscreen, calls |-> <<>>]
  ELSE [html |-> enter_fullscreen, native |-> FALSE,
        window |-> IF owner_window_ THEN enter_fullscreen
                   ELSE window_fullscreen,
        calls |-> IF owner_window_
                    THEN <<WindowCall("SetFullScreen", enter_fullscreen)>>
                    ELSE <<>>]

\* SetOwnerWindow: the delegate takes a weak pointer to a window, which may
\* be fullscreen or not, and attaches a relay to the web contents.  The
\* overload taking the window alone passes GetWebContents(), null once
\* web_contents_ is reset, and SetUserData through it ends the process; the
\* overload given web contents of its caller does not look at web_contents_.
SetOwnerWindow(fullscreen) ==
  /\ Running
  /\ \E own_web_contents \in BOOLEAN :
       crashed' = (own_web_contents /\ ~web_contents_)
  /\ owner_window_' = TRUE
  /\ window_fullscreen' = fullscreen
  /\ tab_calls' = <<>>
  /\ window_calls' = <<>>
  /\ emitted' = <<>>
  /\ last' = [op |-> "SetOwnerWindow", fullscreen |-> fullscreen]
  /\ UNCHANGED <<html_fullscreen_, native_fullscreen_, web_contents_, prefs,
                 isolated, add_pickers, searches, indexVars, saveVars,
                 bindingsVars>>

\* The owner window is destroyed: the weak pointer reads as null from now on.
OwnerWindowDestroyed ==
  /\ Running
  /\ owner_window_
  /\ owner_window_' = FALSE
  /\ tab_calls' = <<>>
  /\ window_calls' = <<>>
  /\ emitted' = <<>>
  /\ last' = [op |-> "OwnerWindowDestroyed"]
  /\ UNCHANGED <<window_fullscreen, html_fullscreen_, native_fullscreen_,
                 regVars, indexVars, saveVars, bindingsVars>>

\* The user takes the window into or out of fullscreen.
UserToggleFullScreen ==
  /\ Running
  /\ owner_window_
  /\ Len(tab_calls) < MaxTabCalls
  /\ window_fullscreen' = ~window_fullscreen
  /\ tab_calls' = Append(tab_calls, TabCall("user"))
  /\ window_calls' = <<>>
  /\ emitted' = <<>>
  /\ last' = [op |-> "UserToggleFullScreen"]
  /\ UNCHANGED <<owner_window_, html_fullscreen_, native_fullscreen_,
                 regVars, indexVars, saveVars, bindingsVars>>

EnterFullscreenModeForTab ==
  /\ Running
  /\ IF ~owner_window_
       THEN /\ window_calls' = <<>>
            /\ UNCHANGED <<window_fullscreen, html_fullscreen_,
                           native_fullscreen_, tab_calls>>
       ELSE /\ Len(tab_calls) < MaxTabCalls
            /\ LET r == SetHtmlApiFullscreen(TRUE) IN
                 /\ html_fullscreen_' = r.html
                 /\ native_fullscreen_' = r.native
                 /\ window_fullscreen' = r.window
                 /\ window_calls' =
                      r.calls \o
                      <<WindowCall("NotifyWindowEnterHtmlFullScreen", TRUE)>>
            /\ tab_calls' = Append(tab_calls, TabCall("enter"))
  /\ emitted' = <<>>
  /\ last' = [op |-> "EnterFullscreenModeForTab"]
  /\ UNCHANGED <<owner_window_, regVars, indexVars, saveVars, bindingsVars>>

ExitFullscreenModeForTab ==
  /\ Running
  /\ IF ~owner_window_
       THEN /\ window_calls' = <<>>
            /\ UNCHANGED <<window_fullscreen, html_fullscreen_,
                           native_fullscreen_, tab_calls>>
       ELSE /\ Len(tab_calls) < MaxTabCalls
            /\ LET r == SetHtmlApiFullscreen(FALSE) IN
                 /\ html_fullscreen_' = r.html
                 /\ native_fullscreen_' = r.native
                 /\ window_fullscreen' = r.window
                 /\ window_calls' =
                      r.calls \o
                      <<WindowCall("NotifyWindowLeaveHtmlFullScreen", TRUE)>>
            /\ tab_calls' = Append(tab_calls, TabCall("exit"))
  /\ emitted' = <<>>
  /\ last' = [op |-> "ExitFullscreenModeForTab"]
  /\ UNCHANGED <<owner_window_, regVars, indexVars, saveVars, bindingsVars>>

IsFullscreenForTabOrPending == html_fullscreen_

\* ------------------------------------------------------------------- init
\* The delegate as constructed and initialised with its web contents; the
\* preference store is the only thing that outlives a session.
InitDelegate ==
  /\ web_contents_ = TRUE
  /\ isolated = {}
  /\ add_pickers = <<>>
  /\ crashed = FALSE
  /\ searches = <<>>
  /\ devtools_indexing_jobs_ = {}
  /\ indexer = [s \in 1..MaxJobs |-> NoJob]
  /\ posted = <<>>
  /\ saved_files_ = <<>>
  /\ save_pickers = <<>>
  /\ file_task_runner_ = <<>>
  /\ replies = <<>>
  /\ files = [p \in FilePaths |-> NoFile]
  /\ issued = 0
  /\ ran = 0
  /\ notified = 0
  /\ owner_window_ = FALSE
  /\ window_fullscreen = FALSE
  /\ html_fullscreen_ = FALSE
  /\ native_fullscreen_ = FALSE
  /\ tab_calls = <<>>
  /\ window_calls = <<>>
  /\ emitted = <<>>
  /\ last = [op |-> "Init"]

\* ------------------------------------------- JavascriptBindings: the IPC
\* NativeHandler::is_valid: the module system invalidates its native handlers
\* when their script context is invalidated.
is_valid == context_valid

\* The messages the browser sends to a render frame: AtomViewMsg_Message
\* carries a channel and a list of arguments, AtomViewMsg_Message_Shared a
\* channel and a shared-memory handle, and any other message is not one of
\* the bindings'.
Channels == {"c1"}

ArgLists == {<<>>, <<"a">>}

SharedMemoryHandles == {[valid |-> v, memory |-> "m"] : v \in BOOLEAN}

Messages ==
  {[type |-> "AtomViewMsg_Message", channel |-> c, args |-> a] :
     c \in Channels, a \in ArgLists}
  \cup {[type |-> "AtomViewMsg_Message_Shared", channel |-> c, handle |-> h] :
          c \in Channels, h \in SharedMemoryHandles}
  \cup {[type |-> "other"]}

\* ListValueToVector: the list converted to a V8 array and the array back to
\* a vector of V8 values, one per element.
ListValueToVector(list) == [i \in 1..Len(list) |-> [v8 |-> list[i]]]

\* The Event object put before the arguments.
Event == [event |-> TRUE]

\* context()->module_system()->CallModuleMethodSafe("ipc_utils", "emit", ...)
\* with the channel, the event and the arguments.
EmitCall(channel, args_vector) ==
  [module |-> "ipc_utils", method |-> "emit",
   args |-> <<[v8 |-> channel], Event>> \o args_vector]

\* The ipc_utils.emit calls OnSharedBrowserMessage makes.  A bad handle is
\* reported (NOTREACHED) and the message dropped.
OnSharedBrowserMessage(channel, handle) ==
  IF ~handle.valid THEN <<>>
  ELSE IF ~is_valid THEN <<>>
  ELSE <<EmitCall(channel, <<[shared_memory |-> handle.memory]>>)>>

\* Mutant: OnBrowserMessage without its test of the context type.
MutOnBrowserMessage_AnyContextType(channel, args) ==
  IF ~context_valid THEN <<>>
  ELSE <<EmitCall(channel, ListValueToVector(args))>>

\* The ipc_utils.emit calls OnBrowserMessage makes.
OnBrowserMessage(channel, args) ==
  IF ~context_valid THEN <<>>
  ELSE IF context_type = "WEB_PAGE_CONTEXT" THEN <<>>
  ELSE <<EmitCall(channel, ListValueToVector(args))>>

\* Mutant: the shared message map is consulted in every context.
MutDispatched_SharedInAnyContext(message) ==
  IF ~is_valid THEN <<>>
  ELSE IF context_type = "WEB_PAGE_CONTEXT" THEN <<>>
  ELSE (IF message.type = "AtomViewMsg_Message_Shared"
          THEN <<"OnSharedBrowserMessage">> ELSE <<>>)
       \o (IF message.type = "AtomViewMsg_Message"
             THEN <<"OnBrowserMessage">> ELSE <<>>)

\* The handlers the message maps of OnMessageReceived dispatch the message
\* to, in order: none before the early returns; then the map for shared
\* messages, consulted in a WebUI or blessed extension context only; then
\* the map for ordinary messages.
Dispatched(message) ==
  IF ~is_valid THEN <<>>
  ELSE IF context_type = "WEB_PAGE_CONTEXT" THEN <<>>
  ELSE (IF /\ context_type \in {"WEBUI_CONTEXT", "BLESSED_EXTENSION_CONTEXT"}
           /\ message.type = "AtomViewMsg_Message_Shared"
          THEN <<"OnSharedBrowserMessage">> ELSE <<>>)
       \o (IF message.type = "AtomViewMsg_Message"
             THEN <<"OnBrowserMessage">> ELSE <<>>)

\* Mutant: a message map that marks a message it dispatched as handled.
MutMessageMap_SetsHandled(handled, matched) == matched

\* One message map's effect on the local handled: IPC_MESSAGE_HANDLER leaves
\* it alone, IPC_MESSAGE_UNHANDLED(handled = false) clears it.
MessageMap(handled, matched) == IF matched THEN handled ELSE FALSE

\* The value OnMessageReceived returns.
Handled(message) ==
  IF ~is_valid THEN FALSE
  ELSE IF context_type = "WEB_PAGE_CONTEXT" THEN FALSE
  ELSE LET handled == FALSE
           shared ==
             IF context_type \in {"WEBUI_CONTEXT", "BLESSED_EXTENSION_CONTEXT"}
               THEN MessageMap(handled,
                               message.type = "AtomViewMsg_Message_Shared")
               ELSE handled
       IN MessageMap(shared, message.type = "AtomViewMsg_Message")

RunHandler(handler, message) ==
  IF handler = "OnSharedBrowserMessage"
    THEN OnSharedBrowserMessage(message.channel, message.handle)
    ELSE OnBrowserMessage(message.channel, message.args)

OnMessageReceived(message) ==
  /\ Running
  /\ LET dispatched == Dispatched(message) IN
       /\ ipc_utils_emit' =
            IF Len(dispatched) = 0 THEN <<>>
            ELSE IF Len(dispatched) = 1 THEN RunHandler(dispatched[1], message)
            ELSE RunHandler(dispatched[1], message)
                   \o RunHandler(dispatched[2], message)
       /\ last' = [op |-> "OnMessageReceived", message |-> message,
                   dispatched |-> dispatched, handled |-> Handled(message)]
  /\ emitted' = <<>>
  /\ UNCHANGED <<context_valid, render_frame_, context_type, global_privates,
                 object_privates, regVars, indexVars, saveVars, fullscreenVars>>

\* ScriptContext::Invalidate: the context is gone, for good.
InvalidateContext ==
  /\ Running
  /\ context_valid
  /\ context_valid' = FALSE
  /\ ipc_utils_emit' = <<>>
  /\ emitted' = <<>>
  /\ last' = [op |-> "InvalidateContext"]
  /\ UNCHANGED <<render_frame_, context_type, global_privates,
                 object_privates, regVars, indexVars, saveVars, fullscreenVars>>

\* The render frame is destroyed: OnDestruct keeps the bindings, whose
\* render_frame() is null from then on.
OnDestruct ==
  /\ Running
  /\ render_frame_
  /\ render_frame_' = FALSE
  /\ ipc_utils_emit' = <<>>
  /\ emitted' = <<>>
  /\ last' = [op |-> "OnDestruct"]
  /\ UNCHANGED <<context_valid, context_type, global_privates,
                 object_privates, regVars, indexVars, saveVars, fullscreenVars>>

\* ---------------------------------- JavascriptBindings: the hidden values
Keys == {"k1", "k2"}

\* The JavaScript values kept under a key; "undefined" is v8::Undefined.
JsValues == {"v1", "v2", "undefined"}

\* v8::Local<v8::Value>: empty, or holding a value.
EmptyHandle == [empty |-> TRUE]

Local(value) == [empty |-> FALSE, value |-> value]

Handles == {EmptyHandle} \cup {Local(v) : v \in JsValues}

\* v8::Object::HasPrivate and SetPrivate on the context's global object.
HasPrivate(key) == key \in DOMAIN global_privates

SetPrivate(key, value) ==
  [k \in DOMAIN global_privates \cup {key} |->
     IF k = key THEN value ELSE global_privates[k]]

\* The handle GetHiddenValue returns.
GetHiddenValueResult(key) ==
  IF ~is_valid \/ ~render_frame_ THEN EmptyHandle
  ELSE IF ~HasPrivate(key) THEN EmptyHandle
  ELSE Local(global_privates[key])

GetHiddenValue(key) ==
  /\ Running
  /\ last' = [op |-> "GetHiddenValue", key |-> key,
              result |-> GetHiddenValueResult(key)]
  /\ ipc_utils_emit' = <<>>
  /\ emitted' = <<>>
  /\ UNCHANGED <<context_valid, render_frame_, context_type, global_privates,
                 object_privates, regVars, indexVars, saveVars, fullscreenVars>>

SetHiddenValue(key, value) ==
  /\ Running
  /\ global_privates' =
       IF ~is_valid \/ ~render_frame_ \/ value.empty THEN global_privates
       ELSE SetPrivate(key, value.value)
  /\ last' = [op |-> "SetHiddenValue", key |-> key, value |-> value]
  /\ ipc_utils_emit' = <<>>
  /\ emitted' = <<>>
  /\ UNCHANGED <<context_valid, render_frame_, context_type,
                 object_privates, regVars, indexVars, saveVars, fullscreenVars>>

\* Mutant: the private property is really deleted.
MutDeleteHiddenValue_Removes(object, key) ==
  /\ Running
  /\ global_privates' =
       IF ~is_valid \/ ~render_frame_ THEN global_privates
       ELSE [k \in DOMAIN global_privates \ {key} |-> global_privates[k]]
  /\ last' = [op |-> "DeleteHiddenValue", object |-> object, key |-> key]
  /\ ipc_utils_emit' = <<>>
  /\ emitted' = <<>>
  /\ UNCHANGED <<context_valid, render_frame_, context_type,
                 object_privates, regVars, indexVars, saveVars, fullscreenVars>>

\* The objects a caller may name; the value is replaced on the context's
\* global object whichever is named.
Objects == {"global", "other"}

DeleteHiddenValue(object, key) ==
  /\ Running
  /\ global_privates' =
       IF ~is_valid \/ ~render_frame_ THEN global_privates
       ELSE SetPrivate(key, "undefined")
  /\ last' = [op |-> "DeleteHiddenValue", object |-> object, key |-> key]
  /\ ipc_utils_emit' = <<>>
  /\ emitted' = <<>>
  /\ UNCHANGED <<context_valid, render_frame_, context_type,
                 object_privates, regVars, indexVars, saveVars, fullscreenVars>>

\* The private properties of an object a caller names: those of the
\* context's global object, or those of some other object.
PrivatesOf(object) ==
  IF object = "global" THEN global_privates ELSE object_privates

\* The handle GetHiddenValueOnObject returns when the call goes through.
GetHiddenValueOnObjectResult(object, key) ==
  IF key \notin DOMAIN PrivatesOf(object) THEN EmptyHandle
  ELSE Local(PrivatesOf(object)[key])

\* What context()->v8_context() gives the object's methods: the context while
\* it is valid.  Once it is invalid the handle is whatever the script
\* context leaves behind, and the call through it either works as before or
\* ends the process.
ContextHandleWorks == IF context_valid THEN {TRUE} ELSE BOOLEAN

\* GetHiddenValueOnObject tests neither is_valid() nor render_frame().
GetHiddenValueOnObject(object, key) ==
  /\ Running
  /\ \E works \in ContextHandleWorks :
       /\ crashed' = ~works
       /\ last' = [op |-> "GetHiddenValueOnObject", object |-> object,
                   key |-> key,
                   result |-> IF works
                                THEN GetHiddenValueOnObjectResult(object, key)
                                ELSE EmptyHandle]
  /\ ipc_utils_emit' = <<>>
  /\ emitted' = <<>>
  /\ UNCHANGED <<context_valid, render_frame_, context_type, global_privates,
                 object_privates, web_contents_, prefs, isolated, add_pickers,
                 searches, indexVars, saveVars, fullscreenVars>>

\* SetHiddenValueOnObject returns on an empty value and tests neither
\* is_valid() nor render_frame(): it writes also after the render frame is
\* gone.
SetHiddenValueOnObject(object, key, value) ==
  /\ Running
  /\ IF value.empty
       THEN UNCHANGED <<global_privates, object_privates, crashed>>
       ELSE \E works \in ContextHandleWorks :
              /\ crashed' = ~works
              /\ global_privates' =
                   IF works /\ object = "global"
                     THEN SetPrivate(key, value.value) ELSE global_privates
              /\ object_privates' =
                   IF works /\ object # "global"
                     THEN [k \in DOMAIN object_privates \cup {key} |->
                             IF k = key THEN value.value
                             ELSE object_privates[k]]
                     ELSE object_privates
  /\ last' = [op |-> "SetHiddenValueOnObject", object |-> object,
              key |-> key, value |-> value]
  /\ ipc_utils_emit' = <<>>
  /\ emitted' = <<>>
  /\ UNCHANGED <<context_valid, render_frame_, context_type, web_contents_,
                 prefs, isolated, add_pickers, searches, indexVars, saveVars,
                 fullscreenVars>>

\* extensions::Feature::Context.
ContextTypes == {"UNSPECIFIED_CONTEXT", "BLESSED_EXTENSION_CONTEXT",
                 "UNBLESSED_EXTENSION_CONTEXT", "CONTENT_SCRIPT_CONTEXT",
                 "WEB_PAGE_CONTEXT", "BLESSED_WEB_PAGE_CONTEXT",
                 "WEBUI_CONTEXT"}

\* JavascriptBindings as constructed for a render frame and a script
\* context, whose type is fixed from then on.
InitBindings ==
  /\ context_valid = TRUE
  /\ render_frame_ = TRUE
  /\ context_type \in ContextTypes
  /\ global_privates = <<>>
  /\ object_privates = <<>>
  /\ ipc_utils_emit = <<>>

\* A first session: the path dictionary is empty; the bindings are those of
\* a web page.
Init ==
  /\ prefs = <<>>
  /\ InitDelegate
  /\ InitBindings
  /\ context_type = "WEB_PAGE_CONTEXT"

\* A session over the dictionary an earlier session left.
InitPersisted ==
  /\ prefs \in PersistedDicts
  /\ InitDelegate
  /\ InitBindings
  /\ context_type = "WEB_PAGE_CONTEXT"

\* A session over a preference store that may hold no path dictionary.
InitUninitialized ==
  /\ prefs \in PersistedDicts \cup {NoDictionary}
  /\ InitDelegate
  /\ InitBindings
  /\ context_type = "WEB_PAGE_CONTEXT"

\* --------------------------------------- the registry and indexing bridge
\* Paths are added by name with the default type: the folder picker and the
\* type tag play no part in indexing.
NextIndex ==
  \/ \E p \in Paths : DevToolsAddFileSystem(p, "")
  \/ \E p \in Paths : DevToolsRemoveFileSystem(p)
  \/ \E id \in RequestIds, p \in Paths : DevToolsIndexPath(id, p)
  \/ \E id \in RequestIds : DevToolsStopIndexing(id)
  \/ \E jid \in 1..MaxJobs, k \in {"total", "worked", "done"} :
       IndexerPost(jid, k)
  \/ RunIndexerCallback

SpecIndex == Init /\ [][NextIndex]_vars

\* ------------------------------------------------- the save/append bridge
NextSave ==
  \/ \E u \in Urls, c \in Contents, save_as \in BOOLEAN :
       DevToolsSaveToFile(u, c, save_as)
  \/ \E u \in Urls, c \in Contents : DevToolsAppendToFile(u, c)
  \/ \E i \in 1..MaxSavePickers, f \in FilePaths : OnSaveFileSelected(i, f)
  \/ \E i \in 1..MaxSavePickers : OnSaveFileSelectionCancelled(i)
  \/ RunFileTask
  \/ RunReply

SpecSave == Init /\ [][NextSave]_vars

\* ------------------------------------------------------ the path registry
NextRegistry ==
  \/ \E p \in Paths \cup {EmptyPath}, t \in Types : DevToolsAddFileSystem(p, t)
  \/ \E i \in 1..MaxAddPickers, p \in Paths : OnAddFileSelected(i, p)
  \/ \E i \in 1..MaxAddPickers : OnAddFileSelectionCancelled(i)
  \/ \E p \in Paths : DevToolsRemoveFileSystem(p)
  \/ DevToolsRequestFileSystems
  \/ \E id \in RequestIds, p \in Paths, q \in Queries :
       DevToolsSearchInPath(id, p, q)
  \/ RunSearchCallback

SpecRegistry == InitPersisted /\ [][NextRegistry]_vars

SpecUninitialized == InitUninitialized /\ [][NextRegistry]_vars

\* ------------------------------------ removal and the requests it cuts off
\* The registry with the two requests that consult it, indexing and search.
NextRemove ==
  \/ \E p \in Paths : DevToolsAddFileSystem(p, "")
  \/ \E p \in Paths : DevToolsRemoveFileSystem(p)
  \/ \E id \in RequestIds, p \in Paths : DevToolsIndexPath(id, p)
  \/ \E id \in RequestIds : DevToolsStopIndexing(id)
  \/ \E id \in RequestIds, p \in Paths, q \in Queries :
       DevToolsSearchInPath(id, p, q)
  \/ RunSearchCallback

SpecRemove == Init /\ [][NextRemove]_vars

\* ------------------------------------------------------------ the pickers
\* The two handlers that open a picker, and what the pickers call back with.
\* What is saved plays no part in picking: one content stands for all.
NextPickers ==
  \/ \E t \in Types : DevToolsAddFileSystem(EmptyPath, t)
  \/ \E i \in 1..MaxAddPickers, p \in Paths : OnAddFileSelected(i, p)
  \/ \E i \in 1..MaxAddPickers : OnAddFileSelectionCancelled(i)
  \/ \E u \in Urls, save_as \in BOOLEAN :
       DevToolsSaveToFile(u, <<"h">>, save_as)
  \/ \E i \in 1..MaxSavePickers, f \in FilePaths : OnSaveFileSelected(i, f)
  \/ \E i \in 1..MaxSavePickers : OnSaveFileSelectionCancelled(i)

SpecPickers == Init /\ [][NextPickers]_vars

\* --------------------------------------------------------- the whole bridge
\* Every handler and every callback of the bridge, over one path, one request
\* id, one url, one content and one file.
NextBridge ==
  \/ \E p \in {"p1", EmptyPath}, t \in Types : DevToolsAddFileSystem(p, t)
  \/ OnAddFileSelected(1, "p1")
  \/ OnAddFileSelectionCancelled(1)
  \/ DevToolsRemoveFileSystem("p1")
  \/ DevToolsRequestFileSystems
  \/ DevToolsIndexPath(1, "p1")
  \/ DevToolsStopIndexing(1)
  \/ \E jid \in 1..MaxJobs : IndexerPost(jid, "done")
  \/ RunIndexerCallback
  \/ DevToolsSearchInPath(1, "p1", "q")
  \/ RunSearchCallback
  \/ \E save_as \in BOOLEAN : DevToolsSaveToFile("u1", <<"h">>, save_as)
  \/ DevToolsAppendToFile("u1", <<"h">>)
  \/ OnSaveFileSelected(1, "f1")
  \/ OnSaveFileSelectionCancelled(1)
  \/ RunFileTask
  \/ RunReply

SpecBridge == Init /\ [][NextBridge]_vars

\* ------------------------------------------- removal under running requests
\* One path that is added and removed while indexing jobs run on it and while
\* a url is saved to a file.
NextRemoveJobs ==
  \/ DevToolsAddFileSystem("p1", "")
  \/ DevToolsRemoveFileSystem("p1")
  \/ \E id \in RequestIds : DevToolsIndexPath(id, "p1")
  \/ \E jid \in 1..MaxJobs, k \in {"worked", "done"} : IndexerPost(jid, k)
  \/ RunIndexerCallback
  \/ DevToolsSaveToFile("u1", <<"h">>, FALSE)
  \/ OnSaveFileSelected(1, "f1")

SpecRemoveJobs == Init /\ [][NextRemoveJobs]_vars

\* ------------------------------------------------- the renderer's bindings
\* The bindings of a context of any type.
InitAnyContext ==
  /\ prefs = <<>>
  /\ InitDelegate
  /\ InitBindings

\* The keys used on an object: both on the global object, one on the other.
ObjectKeys(object) == IF object = "global" THEN Keys ELSE {"k1"}

NextBindings ==
  \/ \E message \in Messages : OnMessageReceived(message)
  \/ InvalidateContext
  \/ OnDestruct
  \/ \E key \in Keys : GetHiddenValue(key)
  \/ \E key \in Keys, value \in Handles : SetHiddenValue(key, value)
  \/ \E object \in Objects, key \in Keys : DeleteHiddenValue(object, key)
  \/ \E object \in Objects : \E key \in ObjectKeys(object) :
       GetHiddenValueOnObject(object, key)
  \/ \E object \in Objects : \E key \in ObjectKeys(object), value \in Handles :
       SetHiddenValueOnObject(object, key, value)

SpecBindings == InitAnyContext /\ [][NextBindings]_vars

\* The bridge whose web contents may be destroyed at any moment.
NextDestroy ==
  \/ NextBridge
  \/ DestroyWebContents

SpecDestroy == Init /\ [][NextDestroy]_vars

\* -------------------------------------------------------------- fullscreen
NextFullscreen ==
  \/ DestroyWebContents
  \/ \E fullscreen \in BOOLEAN : SetOwnerWindow(fullscreen)
  \/ OwnerWindowDestroyed
  \/ UserToggleFullScreen
  \/ EnterFullscreenModeForTab
  \/ ExitFullscreenModeForTab

SpecFullscreen == Init /\ [][NextFullscreen]_vars

\* ================================================= indexing-job tracker
\* C1 (as claimed): once DevToolsStopIndexing(id) has stopped a job, no
\* notification of that job (indexingTotalWorkCalculated, indexingWorked,
\* indexingDone) reaches the front end, late callbacks included: no callback
\* of a stopped job delivers a notification.
C1_NoNotificationAfterStop ==
  (last.op = "RunIndexerCallback" /\ last.stopped) => emitted = <<>>

\* C2 (as claimed): DevToolsIndexPath(id, path) while the tracker holds a job
\* for id is a no-op whatever the path: tracker and indexer are unchanged and
\* nothing is notified.
C2_RestartIsNoOp ==
  [][(last'.op = "DevToolsIndexPath" /\ last'.running) =>
       /\ UNCHANGED <<devtools_indexing_jobs_, indexer, posted>>
       /\ emitted' = <<>>]_vars

\* C3 (as claimed): every job the indexer has started, that was not stopped
\* and whose done callback has not run, has its entry in the tracker under
\* its request id.
C3_ActiveJobsTracked ==
  \A s \in 1..MaxJobs :
    JobActive(indexer[s]) =>
      [id |-> indexer[s].id, jid |-> s] \in devtools_indexing_jobs_

\* C4: DevToolsIndexPath(id, p) with p not in the registry delivers exactly
\* indexingDone(id, p) in the call and starts no indexer job; an
\* indexingWorked or indexingTotalWorkCalculated notification is delivered
\* only by a callback of an indexer job, and a job is created only by a call
\* whose path is registered.
C4_UnregisteredReportsDone ==
  /\ [][(last'.op = "DevToolsIndexPath" /\ ~last'.added) =>
          /\ emitted' = <<IndexNote("indexingDone", last'.id, last'.path,
                                    0, FALSE)>>
          /\ UNCHANGED <<indexer, posted>>]_vars
  /\ [][\A s \in 1..MaxJobs :
          (indexer[s] = NoJob /\ indexer'[s] # NoJob) =>
            /\ last'.op = "DevToolsIndexPath"
            /\ last'.added
            /\ indexer'[s].path = last'.path]_vars
  /\ [](\A i \in 1..Len(emitted) :
          emitted[i].name \in {"indexingWorked", "indexingTotalWorkCalculated"}
            => last.op = "RunIndexerCallback" /\ emitted[i].jid = last.jid)

\* C4 witness: an index request for an unregistered path has just reported
\* done while a registered path exists.
C4_Witness ==
  /\ last.op = "DevToolsIndexPath"
  /\ ~last.added
  /\ DOMAIN prefs # {}
  /\ emitted = <<IndexNote("indexingDone", last.id, last.path, 0, FALSE)>>

\* C5: when indexingDone is sent the tracker no longer holds an entry for
\* the request id, and the tracker never holds two entries for one id.
C5_ErasedBeforeDone ==
  /\ \A i \in 1..Len(emitted) :
       emitted[i].name = "indexingDone" => ~emitted[i].tracked
  /\ \A id \in RequestIds : MapCount(devtools_indexing_jobs_, id) <= 1

\* C5 witness: the done callback of a job that was tracked has just run,
\* while the tracker still holds another job.
C5_Witness ==
  /\ last.op = "RunIndexerCallback"
  /\ last.kind = "done"
  /\ last.tracked
  /\ emitted # <<>>
  /\ emitted[1].name = "indexingDone"
  /\ devtools_indexing_jobs_ # {}

\* ===================================================== save/append tracker
\* C6: DevToolsAppendToFile(url, content) for a url with no tracked path
\* posts no file task, leaves files, trackers and registry as they are and
\* notifies nothing.
C6_AppendUntrackedNoEffect ==
  [][(last'.op = "DevToolsAppendToFile" /\ last'.url \notin DOMAIN saved_files_)
       => /\ UNCHANGED <<regVars, indexVars, saveVars>>
          /\ emitted' = <<>>]_vars

\* C6 witness: an append for an untracked url has just run while the save
\* picker for that url is still open.
C6_Witness ==
  /\ last.op = "DevToolsAppendToFile"
  /\ ~last.tracked
  /\ \E i \in 1..Len(save_pickers) : save_pickers[i].url = last.url

\* C7: DevToolsSaveToFile posts the write to the tracked path, opening no
\* picker, exactly when save_as is false and url is tracked; otherwise it
\* opens a picker and posts nothing.  A write task is posted only by such a
\* reusing save or by a picker selection.
C7_SaveReusesOrPrompts ==
  /\ [][last'.op = "DevToolsSaveToFile" =>
          IF ~last'.save_as /\ last'.url \in DOMAIN saved_files_
            THEN /\ save_pickers' = save_pickers
                 /\ file_task_runner_' =
                      Append(file_task_runner_,
                             [op |-> "write",
                              path |-> saved_files_[last'.url],
                              content |-> last'.content, url |-> last'.url,
                              serial |-> issued + 1])
                 /\ UNCHANGED <<saved_files_, files>>
            ELSE /\ save_pickers' =
                      Append(save_pickers, [url |-> last'.url,
                                            content |-> last'.content])
                 /\ UNCHANGED <<saved_files_, file_task_runner_, replies,
                                files, issued>>]_vars
  /\ [][(issued' # issued /\ file_task_runner_'[Len(file_task_runner_')].op
                               = "write") =>
          \/ last'.op = "OnSaveFileSelected"
          \/ /\ last'.op = "DevToolsSaveToFile"
             /\ ~last'.save_as
             /\ last'.tracked]_vars

\* C7 witness: a save_as save of a url that has a tracked path has opened the
\* picker.
C7_Witness ==
  /\ last.op = "DevToolsSaveToFile"
  /\ last.save_as
  /\ last.tracked
  /\ save_pickers # <<>>
  /\ save_pickers[Len(save_pickers)].url = last.url

\* C8: saved_files_ changes only in OnSaveFileSelected, which maps the url
\* to the selected path while the write it posts has not run yet; an append
\* posts its task to the path saved_files_ holds when it is called.
C8_MappingSetOnSelection ==
  /\ [][saved_files_' # saved_files_ => last'.op = "OnSaveFileSelected"]_vars
  /\ [][last'.op = "OnSaveFileSelected" =>
          /\ last'.url \in DOMAIN saved_files_'
          /\ saved_files_'[last'.url] = last'.path
          /\ \A u \in DOMAIN saved_files_' \ {last'.url} :
               u \in DOMAIN saved_files_ /\ saved_files_'[u] = saved_files_[u]
          /\ file_task_runner_' # <<>>
          /\ file_task_runner_'[Len(file_task_runner_')] =
               [op |-> "write", path |-> last'.path,
                content |-> last'.content, url |-> last'.url,
                serial |-> issued']
          /\ ran' < issued']_vars
  /\ [][(last'.op = "DevToolsAppendToFile"
           /\ last'.url \in DOMAIN saved_files_) =>
          file_task_runner_' =
            Append(file_task_runner_,
                   [op |-> "append", path |-> saved_files_[last'.url],
                    content |-> last'.content, url |-> last'.url,
                    serial |-> issued + 1])]_vars

\* C8 witness: a selection has just moved a tracked url to another path and
\* its write is still queued.
C8_Witness ==
  /\ last.op = "OnSaveFileSelected"
  /\ last.tracked
  /\ saved_files_[last.url] = last.path
  /\ \E i \in 1..Len(file_task_runner_) :
       /\ file_task_runner_[i].serial = issued
       /\ file_task_runner_[i].path = last.path
  /\ \E i \in 1..Len(file_task_runner_) :
       /\ file_task_runner_[i].url = last.url
       /\ file_task_runner_[i].path # last.path

\* C9: cancelling the save picker delivers canceledSaveURL(url) and nothing
\* else, closes the picker, posts no file task, writes no file and leaves
\* saved_files_ as it is; savedURL is delivered only by the reply of a write
\* task.
C9_CancelReportsAndKeepsState ==
  /\ [][last'.op = "OnSaveFileSelectionCancelled" =>
          /\ emitted' = <<UrlNote("canceledSaveURL", last'.url)>>
          /\ Len(save_pickers') = Len(save_pickers) - 1
          /\ UNCHANGED <<saved_files_, file_task_runner_, replies, files,
                         issued, ran, notified>>]_vars
  /\ [](\A i \in 1..Len(emitted) :
          emitted[i].name = "savedURL" =>
            last.op = "RunReply" /\ last.reply.op = "write")

\* C9 witness: a save_as picker of a url with a tracked path was cancelled.
C9_Witness ==
  /\ last.op = "OnSaveFileSelectionCancelled"
  /\ last.tracked
  /\ last.url \in DOMAIN saved_files_
  /\ emitted = <<UrlNote("canceledSaveURL", last.url)>>

\* C10: file tasks run in the order they were posted; a task that writes all
\* of its content leaves the content (write) or the old content followed by
\* it (append); replies run in the order of their tasks, each after its own
\* task has run, and deliver savedURL for a write and appendedToURL for an
\* append, with the task's url.
C10_TasksAndRepliesInOrder ==
  /\ [][last'.op = "RunFileTask" =>
          /\ last'.task.serial = ran + 1
          /\ last'.n = Len(last'.task.content) =>
               files'[last'.task.path] =
                 IF last'.task.op = "write" THEN File(last'.task.content)
                 ELSE File(last'.old.data \o last'.task.content)
          /\ \A f \in FilePaths \ {last'.task.path} : files'[f] = files[f]]_vars
  /\ [][last'.op = "RunReply" =>
          /\ last'.reply.serial = notified + 1
          /\ last'.reply.serial <= ran
          /\ emitted' =
               <<UrlNote(IF last'.reply.op = "write" THEN "savedURL"
                         ELSE "appendedToURL", last'.reply.url)>>]_vars
  /\ [][files' # files => last'.op = "RunFileTask"]_vars

\* C10 witness: after a save of "h" and an append of "w" for one url, both
\* written in full, the file holds "hw" and appendedToURL has just followed
\* savedURL.
C10_Witness ==
  /\ last.op = "RunReply"
  /\ last.reply.op = "append"
  /\ last.reply.serial = 2
  /\ notified = 2
  /\ emitted = <<UrlNote("appendedToURL", last.reply.url)>>
  /\ last.reply.url \in DOMAIN saved_files_
  /\ files[saved_files_[last.reply.url]] = File(<<"h", "w">>)

\* C11: a failed background write is not reported: savedURL (for Save) and
\* appendedToURL (for Append) are delivered only when the background write
\* succeeded, and nothing is delivered for a write that failed.
C11_NotifiedOnlyOnSuccess ==
  last.op = "RunReply" => (emitted # <<>> => last.reply.ok)

\* ========================================================= path registry
\* C12: a path is in the registry only once it was added: an entry appears
\* only in an Add step for that path.  After Add(p, t) for a non-empty p that
\* was not present, Contains(p) holds, the list ListAll reports has an entry
\* with path p and type t, and the step delivered exactly one notification,
\* fileSystemAdded for p.
C12_AddRegisters ==
  /\ [][\A p \in Paths :
          p \notin DOMAIN prefs /\ p \in DOMAIN prefs' =>
            /\ last'.op \in {"DevToolsAddFileSystem", "OnAddFileSelected"}
            /\ last'.path = p]_vars
  /\ [][/\ last'.op = "DevToolsAddFileSystem"
        /\ last'.path # EmptyPath
        /\ ~IsDevToolsFileSystemAdded(last'.path)
        => /\ last'.path \in DOMAIN prefs'
           /\ \E i \in DOMAIN FileSystemValues(GetAddedFileSystemPaths)' :
                FileSystemValues(GetAddedFileSystemPaths)'[i] =
                  [path |-> last'.path, type |-> last'.type]
           /\ emitted' = <<[name |-> "fileSystemAdded", path |-> last'.path,
                            type |-> last'.type]>>]_vars

\* C12 witness: Add has just registered a new path with type "automatic"
\* next to a path that was there before.
C12_Witness ==
  /\ last.op = "DevToolsAddFileSystem"
  /\ last.type = "automatic"
  /\ last.path \in DOMAIN prefs
  /\ DOMAIN prefs = Paths
  /\ prefs[last.path] = StringValue("automatic")
  /\ emitted = <<[name |-> "fileSystemAdded", path |-> last.path,
                  type |-> "automatic"]>>

\* C13: Add(path, type) for a path that is already in the registry registers
\* the path with the isolated context again (granting the renderer its
\* capabilities) and changes nothing else: the dictionary, and so the type
\* persisted for the path, stays as it was even when the new type differs,
\* and no fileSystemAdded is delivered.
C13_AddPresentKeepsEntry ==
  [][/\ last'.op \in {"DevToolsAddFileSystem", "OnAddFileSelected"}
     /\ last'.path # EmptyPath
     /\ IsDevToolsFileSystemAdded(last'.path)
     => /\ prefs' = prefs
        /\ emitted' = <<>>
        /\ isolated' = isolated \cup {last'.path}
        /\ last'.op = "DevToolsAddFileSystem" => UNCHANGED add_pickers
        /\ UNCHANGED <<web_contents_, crashed, searches, indexVars,
                       saveVars>>]_vars

\* C13 witness: Add with type "automatic" has just run for a path persisted
\* with the empty type; the path is registered and its type is still empty.
C13_Witness ==
  /\ last.op = "DevToolsAddFileSystem"
  /\ last.type = "automatic"
  /\ last.path \in DOMAIN prefs
  /\ prefs[last.path] = StringValue("")
  /\ last.path \in isolated
  /\ emitted = <<>>

\* C14: Remove(path) revokes the path's registration with the isolated
\* context, deletes its entry from the dictionary and no other, so that
\* Contains(path) is false afterwards, and delivers fileSystemRemoved(path)
\* and nothing else.  A StartIndexing or SearchInPath for the path that comes
\* next is answered at once as for an unregistered path: indexingDone, or
\* searchCompleted with no results, without a job or a search being started.
C14_RemoveUnregisters ==
  /\ [][last'.op = "DevToolsRemoveFileSystem" =>
          /\ last'.path \notin isolated'
          /\ last'.path \notin DOMAIN prefs'
          /\ DOMAIN prefs' = DOMAIN prefs \ {last'.path}
          /\ \A p \in DOMAIN prefs' : prefs'[p] = prefs[p]
          /\ emitted' = <<PathNote("fileSystemRemoved", last'.path)>>]_vars
  /\ [][/\ last.op = "DevToolsRemoveFileSystem"
        /\ last'.op = "DevToolsIndexPath"
        /\ last'.path = last.path
        => /\ emitted' = <<IndexNote("indexingDone", last'.id, last'.path, 0,
                                     FALSE)>>
           /\ UNCHANGED <<indexer, posted>>]_vars
  /\ [][/\ last.op = "DevToolsRemoveFileSystem"
        /\ last'.op = "DevToolsSearchInPath"
        /\ last'.path = last.path
        => /\ emitted' = <<[name |-> "searchCompleted", id |-> last'.id,
                            path |-> last'.path, files |-> <<>>]>>
           /\ UNCHANGED searches]_vars

\* C14 witness: a path on which an indexing job is still running has just
\* been removed, and the other path is still registered.
C14_Witness ==
  /\ last.op = "DevToolsRemoveFileSystem"
  /\ last.path \notin DOMAIN prefs
  /\ DOMAIN prefs # {}
  /\ \E e \in devtools_indexing_jobs_ :
       /\ indexer[e.jid].path = last.path
       /\ ~indexer[e.jid].stopped
  /\ emitted = <<PathNote("fileSystemRemoved", last.path)>>

\* C15: ListAll delivers exactly one notification, fileSystemsLoaded, whose
\* list has one entry per path of the dictionary and no other entry; an entry
\* carries the type persisted for its path (the empty type when the value
\* persisted is not a string); the list is empty when the dictionary is
\* empty or absent; and the dictionary is left as it was.
C15_ListAllReportsRegistry ==
  [][last'.op = "DevToolsRequestFileSystems" =>
       /\ Len(emitted') = 1
       /\ emitted'[1].name = "fileSystemsLoaded"
       /\ prefs' = prefs
       /\ LET fs == emitted'[1].file_systems IN
            IF prefs = NoDictionary THEN fs = <<>>
            ELSE /\ Len(fs) = Cardinality(DOMAIN prefs)
                 /\ \A p \in DOMAIN prefs :
                      \E i \in 1..Len(fs) : fs[i].path = p
                 /\ \A i \in 1..Len(fs) :
                      /\ fs[i].path \in DOMAIN prefs
                      /\ fs[i].type =
                           IF prefs[fs[i].path].is_string
                             THEN prefs[fs[i].path].string ELSE ""]_vars

\* C15 witness: ListAll has just listed two paths, one persisted with type
\* "automatic" and one persisted without a type.
C15_Witness ==
  /\ last.op = "DevToolsRequestFileSystems"
  /\ prefs # NoDictionary
  /\ DOMAIN prefs = Paths
  /\ prefs["p1"] = StringValue("automatic")
  /\ prefs["p2"] = NullValue
  /\ emitted = <<[name |-> "fileSystemsLoaded",
                  file_systems |-> <<[path |-> "p1", type |-> "automatic"],
                                     [path |-> "p2", type |-> ""]>>]>>

\* C16: SearchInPath for a path that is not registered delivers, in the same
\* step, searchCompleted(id, path, no results) and hands nothing to the
\* indexer; for a registered path it delivers nothing itself and hands the
\* search to the indexer.  Each time the indexer runs the callback of a
\* search, exactly one searchCompleted is delivered, with the id and the
\* path of that search and the results of the indexer, and the search is
\* over.  searchCompleted is delivered in no other step.
C16_SearchCompletesOnce ==
  /\ [][last'.op = "DevToolsSearchInPath" =>
          IF ~IsDevToolsFileSystemAdded(last'.path)
            THEN /\ emitted' = <<[name |-> "searchCompleted",
                                  id |-> last'.id, path |-> last'.path,
                                  files |-> <<>>]>>
                 /\ UNCHANGED searches
            ELSE /\ emitted' = <<>>
                 /\ searches' = Append(searches,
                                       [id |-> last'.id, path |-> last'.path,
                                        query |-> last'.query])]_vars
  /\ [][last'.op = "RunSearchCallback" =>
          /\ searches # <<>>
          /\ searches' = Tail(searches)
          /\ Len(emitted') = 1
          /\ emitted'[1].name = "searchCompleted"
          /\ emitted'[1].id = Head(searches).id
          /\ emitted'[1].path = Head(searches).path
          /\ emitted'[1].files \in SearchResults]_vars
  /\ [](\A i \in 1..Len(emitted) :
          emitted[i].name = "searchCompleted" =>
            last.op \in {"DevToolsSearchInPath", "RunSearchCallback"})

\* C16 witness: the callback of a search has just delivered two results for
\* a path that is registered.
C16_Witness ==
  /\ last.op = "RunSearchCallback"
  /\ last.path \in DOMAIN prefs
  /\ searches = <<>>
  /\ emitted = <<[name |-> "searchCompleted", id |-> last.id,
                  path |-> last.path, files |-> <<"f1", "f2">>]>>

\* ============================================================ concurrency
\* C17: a file task, which runs on a pool thread, works only on what was
\* bound into it when it was posted (path and content) and on the file: it
\* leaves the url-to-path map, the indexing-job map and everything else the
\* delegate owns unchanged, even when the map no longer holds the path the
\* task writes, and it delivers no notification.  The map changes, and
\* notifications are delivered, only in steps of the UI thread; the
\* notification of a task is delivered by its reply, which runs after the
\* task has run.
C17_FileTasksOffTracker ==
  /\ [][last'.op = "RunFileTask" =>
          /\ last'.task = Head(file_task_runner_)
          /\ files' = [files EXCEPT ![last'.task.path] =
                         RunTask(last'.task, @, last'.n)]
          /\ emitted' = <<>>
          /\ UNCHANGED <<saved_files_, save_pickers, regVars,
                         indexVars>>]_vars
  /\ [][saved_files_' # saved_files_ => last'.op = "OnSaveFileSelected"]_vars
  /\ [](emitted # <<>> =>
          last.op \in {"RunReply", "OnSaveFileSelectionCancelled"})
  /\ [][last'.op = "RunReply" => last'.reply.serial <= ran]_vars

\* C17 witness: a write task has just written the path it was posted with,
\* while the map holds another path for its url.
C17_Witness ==
  /\ last.op = "RunFileTask"
  /\ last.task.op = "write"
  /\ last.n = Len(last.task.content)
  /\ last.task.url \in DOMAIN saved_files_
  /\ saved_files_[last.task.url] # last.task.path
  /\ files[last.task.path] = File(last.task.content)
  /\ emitted = <<>>

\* ========================================================= error handling
\* C18 (as claimed): every cancellation of a picker, of the save picker and
\* of the folder picker alike, is reported to the front end by a cancel
\* event.
C18_EveryCancelReported ==
  [][last'.op \in {"OnSaveFileSelectionCancelled",
                   "OnAddFileSelectionCancelled"} =>
       Len(emitted') = 1]_vars

\* C18 (amended): a cancellation of the save picker is reported by
\* canceledSaveURL(url); a cancellation of the folder picker is not
\* reported: it closes the picker, delivers nothing and leaves the registry
\* as it was.
C18_OnlySaveCancelReported ==
  /\ [][last'.op = "OnSaveFileSelectionCancelled" =>
          emitted' = <<UrlNote("canceledSaveURL", last'.url)>>]_vars
  /\ [][last'.op = "OnAddFileSelectionCancelled" =>
          /\ emitted' = <<>>
          /\ Len(add_pickers') = Len(add_pickers) - 1
          /\ UNCHANGED <<prefs, isolated>>]_vars

\* C18 witness: the folder picker has just been cancelled, silently, while a
\* save picker is open.
C18_Witness ==
  /\ last.op = "OnAddFileSelectionCancelled"
  /\ add_pickers = <<>>
  /\ save_pickers # <<>>
  /\ emitted = <<>>

\* C19: no operation of the bridge is fatal to the process, whatever the
\* preference store holds, a store without a path dictionary included.
C19_NoOperationIsFatal == ~crashed

\* ============================================================ frame of the registry
\* C20 (as claimed): the persisted dictionary changes only in a step of Add
\* or Remove; every other handler and every callback leaves it as it was.
C20_OnlyAddAndRemoveWrite ==
  [][prefs' # prefs =>
       last'.op \in {"DevToolsAddFileSystem",
                     "DevToolsRemoveFileSystem"}]_vars

\* C20 (amended): the persisted dictionary changes only in a step of Add, of
\* Remove, or of the folder picker's selection callback, which completes an
\* Add that was given an empty path.  Save, Append, StartIndexing,
\* StopIndexing, SearchInPath, ListAll, the callbacks of the save picker, the
\* folder picker's cancellation, the file tasks and their replies, and the
\* indexer's callbacks leave it as it was.
C20_OnlyAddSelectionAndRemoveWrite ==
  /\ [][prefs' # prefs =>
          last'.op \in {"DevToolsAddFileSystem", "OnAddFileSelected",
                        "DevToolsRemoveFileSystem"}]_vars
  /\ [][last'.op \in {"DevToolsSaveToFile", "DevToolsAppendToFile",
                      "DevToolsIndexPath", "DevToolsStopIndexing",
                      "DevToolsSearchInPath", "DevToolsRequestFileSystems",
                      "OnSaveFileSelected", "OnSaveFileSelectionCancelled",
                      "OnAddFileSelectionCancelled", "RunFileTask",
                      "RunReply", "IndexerPost", "RunIndexerCallback",
                      "RunSearchCallback"}
        => prefs' = prefs]_vars

\* C20 witness: the folder picker's selection has just added a path to the
\* dictionary, with an indexing job, a search and a file task under way.
C20_Witness ==
  /\ last.op = "OnAddFileSelected"
  /\ last.path \in DOMAIN prefs
  /\ emitted = <<[name |-> "fileSystemAdded", path |-> last.path,
                  type |-> last.type]>>
  /\ devtools_indexing_jobs_ # {}
  /\ searches # <<>>
  /\ file_task_runner_ # <<>>

\* ============================================================= fullscreen
\* C21: when the owner window was fullscreen at the latest entry into HTML
\* fullscreen, leaving HTML fullscreen clears the HTML fullscreen state
\* (IsFullscreenForTabOrPending is false afterwards), makes no SetFullScreen
\* call on the window and leaves the window's fullscreen state as it is.
C21_ExitKeepsNativeFullscreen ==
  [][/\ last'.op = "ExitFullscreenModeForTab"
     /\ owner_window_
     /\ \E i \in 1..Len(tab_calls) :
          /\ tab_calls[i].call = "enter"
          /\ tab_calls[i].fullscreen_before
          /\ \A j \in (i + 1)..Len(tab_calls) : tab_calls[j].call # "enter"
     => /\ ~IsFullscreenForTabOrPending'
        /\ \A k \in 1..Len(window_calls') :
             window_calls'[k].name # "SetFullScreen"
        /\ window_fullscreen' = window_fullscreen]_vars

\* C21 witness: the user had the window fullscreen, HTML fullscreen was
\* entered and has just been left; the window is still fullscreen.
C21_Witness ==
  /\ last.op = "ExitFullscreenModeForTab"
  /\ owner_window_
  /\ Len(tab_calls) = 3
  /\ tab_calls[1].call = "user"
  /\ tab_calls[2] = [call |-> "enter", fullscreen_before |-> TRUE]
  /\ tab_calls[3] = [call |-> "exit", fullscreen_before |-> TRUE]
  /\ window_fullscreen
  /\ ~html_fullscreen_
  /\ window_calls = <<WindowCall("NotifyWindowLeaveHtmlFullScreen", TRUE)>>

\* C22: after a sequence of Enter and Exit calls alone that began with an
\* Enter on a window that was not fullscreen and ended with an Exit, the
\* window is not fullscreen.
C22_ExitRestoresWindow ==
  /\ owner_window_
  /\ tab_calls # <<>>
  /\ \A i \in 1..Len(tab_calls) : tab_calls[i].call \in {"enter", "exit"}
  /\ tab_calls[1] = [call |-> "enter", fullscreen_before |-> FALSE]
  /\ tab_calls[Len(tab_calls)].call = "exit"
  => ~window_fullscreen

\* C23: once the web contents are destroyed, no callback that notifies the
\* front end (savedURL, appendedToURL, canceledSaveURL, the indexer's three
\* callbacks, searchCompleted) goes through the destroyed web contents: each
\* is dropped or finds web_contents_ set, so the process keeps running.
C23_CallbacksSurviveDestroy ==
  [][/\ ~web_contents_
     /\ last'.op \in {"RunReply", "OnSaveFileSelectionCancelled",
                      "RunIndexerCallback", "RunSearchCallback"}
     => ~crashed']_vars

\* C24: Remove(path) leaves the indexing-job tracker and the url-to-path map
\* as they are, and the indexer's jobs and posted callbacks too: a job that
\* runs on the removed path is neither stopped nor untracked, and the
\* callbacks of a job that was not stopped deliver indexingWorked and
\* indexingDone for it whether or not its path is still registered.
C24_RemoveKeepsJobs ==
  /\ [][last'.op = "DevToolsRemoveFileSystem" =>
          UNCHANGED <<devtools_indexing_jobs_, saved_files_, indexer, posted,
                      save_pickers, file_task_runner_, replies>>]_vars
  /\ [][/\ last'.op = "RunIndexerCallback"
        /\ ~last'.stopped
        => /\ Len(emitted') = 1
           /\ emitted'[1].name = (IF last'.kind = "worked"
                                    THEN "indexingWorked" ELSE "indexingDone")
           /\ emitted'[1].id = last'.id
           /\ emitted'[1].jid = last'.jid
           /\ emitted'[1].path = indexer[last'.jid].path]_vars

\* C24 witness: indexingDone has just been delivered for a job that was not
\* stopped and was tracked when its callback ran, on a path that has been
\* removed from the registry since the job started, while a url is mapped to
\* a file.
C24_Witness ==
  /\ last.op = "RunIndexerCallback"
  /\ last.kind = "done"
  /\ ~last.stopped
  /\ last.tracked
  /\ Len(emitted) = 1
  /\ emitted[1].name = "indexingDone"
  /\ emitted[1].path = "p1"
  /\ "p1" \notin DOMAIN prefs
  /\ "u1" \in DOMAIN saved_files_

\* C25: no browser message is emitted into a web-page context.  When the
\* context is invalid or its effective type is WEB_PAGE_CONTEXT,
\* OnMessageReceived dispatches the message to no handler and no
\* ipc_utils.emit call is made; OnBrowserMessage, whatever it is given, makes
\* no ipc_utils.emit call in such a context; and every step that makes an
\* ipc_utils.emit call runs in a valid context of another type.
C25_NoEmitIntoWebPage ==
  /\ [][/\ last'.op = "OnMessageReceived"
        /\ (~context_valid \/ context_type = "WEB_PAGE_CONTEXT")
        => /\ last'.dispatched = <<>>
           /\ ipc_utils_emit' = <<>>]_vars
  /\ [](~context_valid \/ context_type = "WEB_PAGE_CONTEXT"
        => \A channel \in Channels, args \in ArgLists :
             OnBrowserMessage(channel, args) = <<>>)
  /\ [][ipc_utils_emit' # <<>>
        => context_valid /\ context_type # "WEB_PAGE_CONTEXT"]_vars

\* C25 witness: an ordinary browser message has just been received in a valid
\* web-page context, and was neither dispatched nor emitted.
C25_Witness ==
  /\ last.op = "OnMessageReceived"
  /\ last.message.type = "AtomViewMsg_Message"
  /\ context_valid
  /\ context_type = "WEB_PAGE_CONTEXT"
  /\ last.dispatched = <<>>
  /\ ipc_utils_emit = <<>>

\* C26: OnMessageReceived dispatches a message to OnSharedBrowserMessage
\* exactly when the message is AtomViewMsg_Message_Shared and the context is
\* valid and of type WEBUI_CONTEXT or BLESSED_EXTENSION_CONTEXT, and to
\* OnBrowserMessage exactly when the message is AtomViewMsg_Message and the
\* context is valid and not a web-page context.
C26_SharedOnlyInPrivilegedContexts ==
  [][last'.op = "OnMessageReceived" =>
       LET d == last'.dispatched
           handlers == {d[i] : i \in 1..Len(d)} IN
         /\ "OnSharedBrowserMessage" \in handlers
              <=> /\ last'.message.type = "AtomViewMsg_Message_Shared"
                  /\ context_valid
                  /\ context_type \in {"WEBUI_CONTEXT",
                                       "BLESSED_EXTENSION_CONTEXT"}
         /\ "OnBrowserMessage" \in handlers
              <=> /\ last'.message.type = "AtomViewMsg_Message"
                  /\ context_valid
                  /\ context_type # "WEB_PAGE_CONTEXT"]_vars

\* C26 witness: a shared message has just been received in a valid blessed
\* web-page context, which is neither a web-page context nor one of the two
\* the shared map is consulted in, and was dispatched to no handler.
C26_Witness ==
  /\ last.op = "OnMessageReceived"
  /\ last.message.type = "AtomViewMsg_Message_Shared"
  /\ last.message.handle.valid
  /\ context_valid
  /\ context_type = "BLESSED_WEB_PAGE_CONTEXT"
  /\ last.dispatched = <<>>
  /\ ipc_utils_emit = <<>>

\* C27: OnMessageReceived returns false for every message in every context,
\* the messages it dispatched to a handler included.
C27_NeverHandled ==
  [][last'.op = "OnMessageReceived" => ~last'.handled]_vars

\* C27 witness: a message has just been dispatched to OnBrowserMessage, which
\* emitted it, and OnMessageReceived returned false.
C27_Witness ==
  /\ last.op = "OnMessageReceived"
  /\ last.dispatched = <<"OnBrowserMessage">>
  /\ Len(ipc_utils_emit) = 1
  /\ ~last.handled

\* C28: while the context is valid and the render frame exists, the hidden
\* values of the global object are one last-write register per key:
\* SetHiddenValue(key, v) with a non-empty v makes GetHiddenValue(key) return
\* v and changes no other key; DeleteHiddenValue(key) makes it return
\* undefined, a value, where a key never set gives the empty handle;
\* GetHiddenValue returns what is stored, and nothing changes it but set,
\* delete and SetHiddenValueOnObject, whose write to the global object is a
\* write to the same register.  In an invalid context, or without a render
\* frame, set and delete change nothing; in an invalid context get returns
\* the empty handle.
C28_HiddenValuesLastWrite ==
  /\ [][/\ last'.op = "SetHiddenValue"
        /\ context_valid /\ render_frame_
        /\ ~last'.value.empty
        => \A k \in Keys :
             GetHiddenValueResult(k)' =
               IF k = last'.key THEN last'.value
               ELSE GetHiddenValueResult(k)]_vars
  /\ [][/\ last'.op = "DeleteHiddenValue"
        /\ context_valid /\ render_frame_
        => \A k \in Keys :
             GetHiddenValueResult(k)' =
               IF k = last'.key THEN Local("undefined")
               ELSE GetHiddenValueResult(k)]_vars
  /\ [][last'.op = "GetHiddenValue" =>
          \E k \in Keys : /\ last'.key = k
                          /\ last'.result = GetHiddenValueResult(k)]_vars
  /\ [][last'.op \notin {"SetHiddenValue", "DeleteHiddenValue",
                          "SetHiddenValueOnObject"}
        => UNCHANGED global_privates]_vars
  /\ [][/\ last'.op \in {"SetHiddenValue", "DeleteHiddenValue"}
        /\ (~context_valid \/ ~render_frame_)
        => UNCHANGED global_privates]_vars
  /\ [][/\ last'.op = "SetHiddenValueOnObject"
        /\ last'.object = "global"
        /\ context_valid /\ render_frame_
        /\ ~last'.value.empty
        => \A k \in Keys :
             GetHiddenValueResult(k)' =
               IF k = last'.key THEN last'.value
               ELSE GetHiddenValueResult(k)]_vars
  /\ [](\A k \in Keys :
          /\ ~context_valid => GetHiddenValueResult(k) = EmptyHandle
          /\ ~HasPrivate(k) => GetHiddenValueResult(k) = EmptyHandle)

\* C28 witness: the value of one key has just been deleted in a valid context
\* with its render frame, so that the key holds undefined, while the other
\* key holds the value set for it.
C28_Witness ==
  /\ last.op = "DeleteHiddenValue"
  /\ last.key = "k1"
  /\ context_valid /\ render_frame_
  /\ DOMAIN global_privates = Keys
  /\ global_privates["k1"] = "undefined"
  /\ global_privates["k2"] = "v1"
  /\ GetHiddenValueResult("k1") = Local("undefined")
====
